---- MODULE Spec2Model ----
(***************************************************************************)
(* The mango request-dispatch core: route resolution, the pre/post hook    *)
(* pipeline around the handler, the Context response builder, content      *)
(* negotiation (Context.GetEncoder) and response finalisation.             *)
(*                                                                         *)
(* context.go and the mockRoutes of router_test.go are modelled from their *)
(* code.  The sources of Router (ServeHTTP, sendError, AddPreHook, Get,    *)
(* ...), of the media type parser and of the encoder engine are not at     *)
(* hand: they are modelled from the specification and from what the tests  *)
(* of router_test.go observe.                                              *)
(*                                                                         *)
(* Spec is the dispatch of requests by ServeHTTP.  RankSpec is GetEncoder  *)
(* called on its own, over more Accept headers than Spec draws, and        *)
(* ContextSpec is a sequence of builder and Bind calls on one Context.     *)
(***************************************************************************)
EXTENDS Integers, Sequences, FiniteSets, TLC

(* ------------------------------ bounds --------------------------------- *)

\* hooks registered per list
MaxHooks == 2
\* builder calls made by user code during one request
MaxCalls == 2
\* calls made on a Context on its own
MaxDirect == 3
\* comma separated fields of an Accept header
MaxAccept == 2
\* comma separated fields of an Accept header that is ranked on its own
MaxRank == 3

(* --------------------------- input domains ----------------------------- *)

Methods == {"GET", "POST", "DELETE"}
Patterns == {"/test", "/other"}
Paths == Patterns \cup {"/missing"}
\* the (method, pattern) pairs handlers are registered for
Registrations == {<<"GET", "/test">>, <<"DELETE", "/test">>, <<"POST", "/other">>}

\* Go's nil, and a non-nil value
Nil == <<>>
Some(v) == <<v>>

\* values handed over as interface{}: their dynamic type and content
IntVal(n) == [kind |-> "int", str |-> "", num |-> n]
StrVal(s) == [kind |-> "string", str |-> s, num |-> 0]
StructVal(s) == [kind |-> "struct", str |-> s, num |-> 0]
Int64Val(n) == [kind |-> "int64", str |-> "", num |-> n]

HeaderKeys == {"Content-Type", "X-Trace"}

\* the builder calls user code (a hook or the handler) makes on its Context
Call(name, key, val) == [name |-> name, key |-> key, val |-> val]
Calls ==
  { Call("WithModel", "", StrVal("text")),
    Call("WithStatus", "", IntVal(404)),
    Call("WithHeader", "X-Trace", StrVal("1")),
    Call("WithContentType", "", StrVal("text/x")),
    Call("RespondWith", "", IntVal(201)),
    Call("RespondWith", "", StrVal("hello")),
    Call("RespondWith", "", StructVal("S")) }

\* the calls made on a Context on its own: those above, and RespondWith of
\* the empty string and of an integer that is not an int
DirectCalls ==
  Calls \cup { Call("WithModel", "", StructVal("S")),
               Call("RespondWith", "", StrVal("")),
               Call("RespondWith", "", Int64Val(404)) }

\* the Content-Type header of a request ("" when it has none) and its body
ContentTypes == {"application/json", "test/test", "text/unknown", ""}
Bodies == {"{}", "garbage"}

\* the fields of an Accept header between its commas, spaces removed
AcceptFields ==
  {"", "test/test;q=0.5", "test/mango", "bogus"}
AcceptHeaders ==
  UNION { [1..n -> AcceptFields] : n \in 1..MaxAccept }

\* the fields of the headers that are ranked on their own: those above, the
\* fields of the header text/html,application/json;q=0.9,*/*;q=0.1 and a
\* second field of quality 0.5
RankFields ==
  AcceptFields \cup {"text/html", "application/json;q=0.9", "*/*;q=0.1",
                     "text/html;q=0.5"}

\* headers of seven fields: from seven elements on, the toolchains' sort.Sort
\* differ
LongHeaders ==
  { <<"test/test;q=0.5", "text/html", "text/html", "text/html;q=0.5",
      "text/html", "text/html", "test/mango">>,
    <<"test/mango", "text/html", "text/html", "test/test;q=0.5",
      "text/html", "text/html", "text/html;q=0.5">> }

RankHeaders ==
  UNION { [1..n -> RankFields] : n \in 1..MaxRank } \cup LongHeaders

(* --------------------- Context and Response builder -------------------- *)

\* an http.ResponseWriter nothing was written to
NewWriter ==
  [code |-> 0, body |-> "", writes |-> 0, header |-> [k \in HeaderKeys |-> <<>>]]

\* the accumulator fields of a Context as ServeHTTP builds it: Go's zero values
NewContext == [status |-> 0, payload |-> Nil, model |-> Nil, responseReady |-> FALSE]

\* a Context: its accumulator fields f and its Writer wr
Context(f, wr) ==
  [status |-> f.status, payload |-> f.payload, model |-> f.model,
   responseReady |-> f.responseReady, Writer |-> wr]

\* the accumulator fields of Context c
Fields(c) ==
  [status |-> c.status, payload |-> c.payload, model |-> c.model,
   responseReady |-> c.responseReady]

\* WithModel dropping a payload set before
WithModelClearsPayload(c, m) ==
  [c EXCEPT !.model = Some(m), !.payload = Nil, !.responseReady = TRUE]

WithModel(c, m) == [c EXCEPT !.model = Some(m), !.responseReady = TRUE]

\* WithStatus marking the response ready without storing the status
WithStatusNotStored(c, s) == [c EXCEPT !.responseReady = TRUE]

WithStatus(c, s) == [c EXCEPT !.status = s, !.responseReady = TRUE]

\* WithHeader marking the response ready
WithHeaderMarksReady(c, key, value) ==
  [c EXCEPT !.Writer.header[key] = Append(@, value), !.responseReady = TRUE]

\* Header().Add appends a value to the key's list
WithHeader(c, key, value) == [c EXCEPT !.Writer.header[key] = Append(@, value)]

\* WithContentType marking the response ready
WithContentTypeMarksReady(c, ct) ==
  [c EXCEPT !.Writer.header["Content-Type"] = <<ct>>, !.responseReady = TRUE]

\* Header().Set replaces the key's list
WithContentType(c, ct) == [c EXCEPT !.Writer.header["Content-Type"] = <<ct>>]

\* RespondWith resetting the fields it does not set
RespondWithClearsOthers(c, d) ==
  LET c0 == [c EXCEPT !.status = 0, !.payload = Nil, !.model = Nil]
      c1 == CASE d.kind = "int" -> [c0 EXCEPT !.status = d.num]
              [] d.kind = "string" -> [c0 EXCEPT !.payload = Some(d.str)]
              [] OTHER -> [c0 EXCEPT !.model = Some(d)]
  IN [c1 EXCEPT !.responseReady = TRUE]

\* RespondWith without the string case: a string is taken for a model
RespondWithStringAsModel(c, d) ==
  LET c1 == CASE d.kind = "int" -> [c EXCEPT !.status = d.num]
              [] OTHER -> [c EXCEPT !.model = Some(d)]
  IN [c1 EXCEPT !.responseReady = TRUE]

RespondWith(c, d) ==
  LET c1 == CASE d.kind = "int" -> [c EXCEPT !.status = d.num]
              [] d.kind = "string" -> [c EXCEPT !.payload = Some(d.str)]
              [] OTHER -> [c EXCEPT !.model = Some(d)]
  IN [c1 EXCEPT !.responseReady = TRUE]

\* Header().Get: the first value of the key, "" when there is none
HeaderGet(wr, key) == IF wr.header[key] = <<>> THEN "" ELSE wr.header[key][1]

(* -------------------------- media-type ranking ------------------------ *)

MediaType(main, sub, q) == [mainType |-> main, subType |-> sub, q |-> q]

\* the zero value of the mediaType struct, as make(mediaTypes, n) fills it in
ZeroMediaType == MediaType("", "", 0)

\* newMediaType: the parsed field, or an error for a field that does not parse.
\* Qualities are in tenths; a field without q has quality 1.0; the empty field
\* (an absent header) is the wildcard.
newMediaType(t) ==
  CASE t = "" -> [err |-> FALSE, m |-> MediaType("*", "*", 10)]
    [] t = "test/test;q=0.5" -> [err |-> FALSE, m |-> MediaType("test", "test", 5)]
    [] t = "test/mango" -> [err |-> FALSE, m |-> MediaType("test", "mango", 10)]
    [] t = "text/html" -> [err |-> FALSE, m |-> MediaType("text", "html", 10)]
    [] t = "text/html;q=0.5" -> [err |-> FALSE, m |-> MediaType("text", "html", 5)]
    [] t = "application/json;q=0.9" ->
         [err |-> FALSE, m |-> MediaType("application", "json", 9)]
    [] t = "*/*;q=0.1" -> [err |-> FALSE, m |-> MediaType("*", "*", 1)]
    [] OTHER -> [err |-> TRUE, m |-> ZeroMediaType]

\* mediaType.String: the type and subtype, without the parameters
MediaTypeString(m) == m.mainType \o "/" \o m.subType

\* mediaTypes.Less orders by descending quality
Less(a, b) == a.q > b.q

\* the insertion of m into the sorted s: m moves ahead of the elements it is
\* Less than
RECURSIVE InsertByQuality(_, _)
InsertByQuality(s, m) ==
  IF s = <<>> THEN <<m>>
  ELSE IF ~Less(m, Head(s)) THEN <<Head(s)>> \o InsertByQuality(Tail(s), m)
  ELSE <<m>> \o s

\* sort.Sort on a slice of fewer than seven elements is an insertion sort in
\* every toolchain
RECURSIVE SortMediaTypes(_)
SortMediaTypes(s) ==
  IF s = <<>> THEN <<>>
  ELSE InsertByQuality(SortMediaTypes(SubSeq(s, 1, Len(s) - 1)), s[Len(s)])

\* the Shell pass with gap 6 that sort.Sort of Go 1.6 to 1.18 makes over a
\* slice of up to 12 elements before its insertion sort: element i changes
\* place with element i-6 when it is Less
ShellPass(s) ==
  [i \in 1..Len(s) |->
     IF i + 6 <= Len(s) /\ Less(s[i + 6], s[i]) THEN s[i + 6]
     ELSE IF i > 6 /\ Less(s[i], s[i - 6]) THEN s[i - 6]
     ELSE s[i]]

\* sort.Sort on a slice of up to seven elements, which does not promise to
\* keep equal elements in order: what the toolchains make of it.  Go up to
\* 1.5 and from 1.19 on sorts by insertion, Go 1.6 to 1.18 makes the Shell
\* pass first.
SortOutcomes(s) == {SortMediaTypes(s), SortMediaTypes(ShellPass(s))}

\* ParseFields leaving the slot of an empty field as it is
ParseFieldsSkipsEmpty(hdr) ==
  [i \in 1..Len(hdr) |->
     IF hdr[i] = "" \/ newMediaType(hdr[i]).err THEN ZeroMediaType
     ELSE newMediaType(hdr[i]).m]

\* ParseFields appending the parsed fields to an empty mt
ParseFieldsDropsMalformed(hdr) ==
  LET Parses(t) == ~newMediaType(t).err
      kept == SelectSeq(hdr, Parses)
  IN [i \in 1..Len(kept) |-> newMediaType(kept[i]).m]

\* hdr: the Accept header as its comma separated fields (strings.Split gives
\* one field, the empty one, for an empty header).  A field that fails to
\* parse leaves the zero mediaType in its slot of mt.
ParseFields(hdr) ==
  [i \in 1..Len(hdr) |->
     IF newMediaType(hdr[i]).err THEN ZeroMediaType ELSE newMediaType(hdr[i]).m]

\* the strings of the sorted media types
MediaTypeStrings(mt) == [i \in 1..Len(mt) |-> MediaTypeString(mt[i])]

\* acceptableMediaTypes of a header of fewer than seven fields
acceptableMediaTypes(hdr) == MediaTypeStrings(SortMediaTypes(ParseFields(hdr)))

(* ---------------------------- encoder engine --------------------------- *)

RegisteredEncoders == {"test/test", "application/json"}

DefaultMediaType == "application/json"

\* EncoderEngine.GetEncoder: an encoder bound to the media type, or an error
EngineGetEncoder(mt) ==
  IF mt \in RegisteredEncoders
  THEN [encoder |-> Some(mt), err |-> Nil]
  ELSE [encoder |-> Nil, err |-> Some("unsupported media type: " \o mt)]

\* Encoder.Encode of the encoder bound to mt.  The test/test encoder writes a
\* string as it is and fails on anything else; the JSON encoder quotes a
\* string and writes a struct without exported fields as {}.
Encode(mt, v) ==
  CASE mt = "test/test" /\ v.kind = "string" -> [err |-> Nil, out |-> v.str]
    [] mt = "test/test" -> [err |-> Some("cannot encode " \o v.str), out |-> ""]
    [] v.kind = "string" -> [err |-> Nil, out |-> "\"" \o v.str \o "\""]
    [] OTHER -> [err |-> Nil, out |-> "{}"]

(* ----------------------------- Context.Bind ---------------------------- *)

RegisteredDecoders == {"test/test", "application/json"}

\* EncoderEngine.GetDecoder: a decoder bound to the content type, or an error
EngineGetDecoder(ct) ==
  IF ct \in RegisteredDecoders
  THEN [decoder |-> Some(ct), err |-> Nil]
  ELSE [decoder |-> Nil, err |-> Some("unsupported media type: " \o ct)]

\* Decoder.Decode of the decoder bound to ct: its error.  The JSON decoder
\* fails on a body that is no JSON, the test/test decoder takes any body.
Decode(ct, body) ==
  IF ct = "application/json" /\ body # "{}"
  THEN Some("invalid character in " \o body)
  ELSE Nil

\* contentDecoder of a request with Content-Type ct
contentDecoder(ct) == EngineGetDecoder(ct)

\* Bind answering a failure itself, with status 400
BindAnswersFailure(c, ct, body) ==
  LET d == contentDecoder(ct)
      failed == [c EXCEPT !.status = 400, !.responseReady = TRUE]
  IN IF d.err # Nil
     THEN [c |-> failed, err |-> Some("unable to bind: " \o d.err[1]), decodes |-> 0]
     ELSE LET e == Decode(d.decoder[1], body)
          IN IF e # Nil
             THEN [c |-> failed, err |-> Some("unable to bind: " \o e[1]),
                   decodes |-> 1]
             ELSE [c |-> c, err |-> Nil, decodes |-> 1]

\* Bind on Context c of a request with Content-Type ct and the body: the
\* Context afterwards, the error returned and the number of Decode calls
Bind(c, ct, body) ==
  LET d == contentDecoder(ct)
  IN IF d.err # Nil
     THEN [c |-> c, err |-> Some("unable to bind: " \o d.err[1]), decodes |-> 0]
     ELSE LET e == Decode(d.decoder[1], body)
          IN IF e # Nil
             THEN [c |-> c, err |-> Some("unable to bind: " \o e[1]), decodes |-> 1]
             ELSE [c |-> c, err |-> Nil, decodes |-> 1]

(* -------------------------- Context.GetEncoder ------------------------- *)

\* GetEncoder asking the engine for the default media type in place of the
\* wildcard, but keeping the wildcard in mt
RECURSIVE GetEncoderLoopWildcardKept(_, _, _, _, _)
GetEncoderLoopWildcardKept(mts, i, mt, err, asked) ==
  IF i > Len(mts)
  THEN [encoder |-> Nil, mt |-> mt, err |-> err, asked |-> asked]
  ELSE LET m == IF mts[i] = "*/*" THEN DefaultMediaType ELSE mts[i]
           r == EngineGetEncoder(m)
       IN IF r.err = Nil
          THEN [encoder |-> r.encoder, mt |-> mts[i], err |-> Nil,
                asked |-> Append(asked, m)]
          ELSE GetEncoderLoopWildcardKept(mts, i + 1, mts[i], r.err,
                                          Append(asked, m))

\* The loop of GetEncoder from index i on.  mt and err are the function's
\* variables of those names; asked lists the media types handed to the
\* engine's GetEncoder so far.
RECURSIVE GetEncoderLoop(_, _, _, _, _)
GetEncoderLoop(mts, i, mt, err, asked) ==
  IF i > Len(mts)
  THEN [encoder |-> Nil, mt |-> mt, err |-> err, asked |-> asked]
  ELSE LET m == IF mts[i] = "*/*" THEN DefaultMediaType ELSE mts[i]
           r == EngineGetEncoder(m)
       IN IF r.err = Nil
          THEN [encoder |-> r.encoder, mt |-> m, err |-> Nil,
                asked |-> Append(asked, m)]
          ELSE GetEncoderLoop(mts, i + 1, m, r.err, Append(asked, m))

\* GetEncoder whose loop variable shadows mt: a failure reports no media type
GetEncoderShadowedMt(hdr) ==
  LET r == GetEncoderLoop(acceptableMediaTypes(hdr), 1, "", Nil, <<>>)
  IN IF r.err # Nil THEN [r EXCEPT !.mt = ""] ELSE r

\* GetEncoder whose loop goes on after a success: the last candidate decides
RECURSIVE GetEncoderLoopNoReturn(_, _, _, _, _, _)
GetEncoderLoopNoReturn(mts, i, encoder, mt, err, asked) ==
  IF i > Len(mts)
  THEN [encoder |-> encoder, mt |-> mt, err |-> err, asked |-> asked]
  ELSE LET m == IF mts[i] = "*/*" THEN DefaultMediaType ELSE mts[i]
           r == EngineGetEncoder(m)
       IN GetEncoderLoopNoReturn(mts, i + 1, r.encoder, m, r.err, Append(asked, m))

GetEncoderNoReturn(hdr) ==
  GetEncoderLoopNoReturn(acceptableMediaTypes(hdr), 1, Nil, "", Nil, <<>>)

\* GetEncoder handing the wildcard to the engine as it is
RECURSIVE GetEncoderLoopVerbatim(_, _, _, _, _)
GetEncoderLoopVerbatim(mts, i, mt, err, asked) ==
  IF i > Len(mts)
  THEN [encoder |-> Nil, mt |-> mt, err |-> err, asked |-> asked]
  ELSE LET r == EngineGetEncoder(mts[i])
       IN IF r.err = Nil
          THEN [encoder |-> r.encoder, mt |-> mts[i], err |-> Nil,
                asked |-> Append(asked, mts[i])]
          ELSE GetEncoderLoopVerbatim(mts, i + 1, mts[i], r.err,
                                      Append(asked, mts[i]))

GetEncoderVerbatim(hdr) ==
  GetEncoderLoopVerbatim(acceptableMediaTypes(hdr), 1, "", Nil, <<>>)

GetEncoder(hdr) == GetEncoderLoop(acceptableMediaTypes(hdr), 1, "", Nil, <<>>)

(* ------------------------------- routes -------------------------------- *)

NoRoutes == [p \in {} |-> [m \in {} |-> ""]]

\* the handler function registered by a Get/Del/... call
HandlerName(method, pattern) == method \o " " \o pattern

\* AddHandlerFunc registering the handler for every method
AddHandlerFuncAnyMethod(rts, pattern, method, handlerFunc) ==
  IF pattern \notin DOMAIN rts
  THEN (pattern :> [m \in Methods |-> handlerFunc]) @@ rts
  ELSE [rts EXCEPT ![pattern] = [m \in Methods |-> handlerFunc]]

\* mockRoutes.AddHandlerFunc
AddHandlerFunc(rts, pattern, method, handlerFunc) ==
  IF pattern \notin DOMAIN rts
  THEN (pattern :> (method :> handlerFunc)) @@ rts
  ELSE [rts EXCEPT ![pattern] = (method :> handlerFunc) @@ @]

\* HandlerFuncs reporting every path as registered
HandlerFuncsAlwaysOk(rts, path) ==
  [handlers |-> IF path \in DOMAIN rts THEN rts[path] ELSE [m \in {} |-> ""],
   ok |-> TRUE]

\* HandlerFuncs never reporting a path as registered
HandlerFuncsNeverOk(rts, path) ==
  [handlers |-> IF path \in DOMAIN rts THEN rts[path] ELSE [m \in {} |-> ""],
   ok |-> FALSE]

\* mockRoutes.HandlerFuncs: the handlers of the path by method, and whether
\* the path is registered
HandlerFuncs(rts, path) ==
  [handlers |-> IF path \in DOMAIN rts THEN rts[path] ELSE [m \in {} |-> ""],
   ok |-> path \in DOMAIN rts]

(* ------------------------------- Router -------------------------------- *)

\* AddPreHook putting the new hook in front of the list
AddPreHookInFront(hooks, hook) == <<hook>> \o hooks

AddPreHook(hooks, hook) == Append(hooks, hook)

AddPostHook(hooks, hook) == Append(hooks, hook)

\* sendError adding its Content-Type to the values the header already has
sendErrorAddsContentType(wr, msg, code) ==
  [wr EXCEPT !.header["Content-Type"] = Append(@, "text/plain; charset=utf-8"),
             !.code = code,
             !.body = @ \o msg,
             !.writes = @ + 1]

\* sendError: the status code, the plain-text Content-Type, the message as body
\* (the wording of the 404 and 405 messages is not fixed by the specification)
sendError(wr, msg, code) ==
  [wr EXCEPT !.header["Content-Type"] = <<"text/plain; charset=utf-8">>,
             !.code = code,
             !.body = @ \o msg,
             !.writes = @ + 1]

\* WriteHeader with the status of the context (200 when it is unset), then
\* Write of the body
WriteResponse(wr, status, body) ==
  [wr EXCEPT !.code = IF status = 0 THEN 200 ELSE status,
             !.body = @ \o body,
             !.writes = @ + 1]

\* fmt's %q of a media type (none of the modelled ones needs an escape)
Quote(s) == "\"" \o s \o "\""

\* The finalisation step of ServeHTTP on context c, writer wr and the Accept
\* header hdr of the request: the writer afterwards, the media types asked of
\* the encoder engine and the encoders whose Encode ran.
FinalizeResponse(c, wr, hdr) ==
  IF ~c.responseReady
  THEN [w |-> WriteResponse(wr, 0, ""), asked |-> <<>>, encoded |-> <<>>]
  ELSE IF c.payload # Nil
  THEN [w |-> WriteResponse(wr, c.status, c.payload[1]),
        asked |-> <<>>, encoded |-> <<>>]
  ELSE IF c.model # Nil
  THEN LET r == GetEncoder(hdr)
       IN IF r.err # Nil
          THEN [w |-> sendError(wr,
                        "Unable to encode to requested acceptable formats: "
                          \o Quote(r.mt), 406),
                asked |-> r.asked, encoded |-> <<>>]
          ELSE LET e == Encode(r.encoder[1], c.model[1])
               IN IF e.err # Nil
                  THEN [w |-> sendError(wr, "Sorry, something went wrong.", 500),
                        asked |-> r.asked, encoded |-> <<r.encoder[1]>>]
                  ELSE [w |-> WriteResponse(
                                [wr EXCEPT !.header["Content-Type"] = <<r.mt>>],
                                c.status, e.out),
                        asked |-> r.asked, encoded |-> <<r.encoder[1]>>]
  ELSE [w |-> WriteResponse(wr, c.status, ""), asked |-> <<>>, encoded |-> <<>>]

(* -------------------------------- state -------------------------------- *)

VARIABLES
  routes,      \* Router.routes: pattern -> method -> handler
  registered,  \* the (method, pattern) pairs a handler was registered for
  preHooks,    \* Router.preHooks, in list order
  postHooks,   \* Router.postHooks, in list order
  pc,          \* "config", or the position of ServeHTTP in the current request
               \* (of GetEncoder, when it is called on its own)
  idx,         \* index of the next hook to run
  req,         \* the current request: method and path
  handler,     \* the handler function resolved for the request, "" if none
  ctx,         \* the request's Context accumulator fields
  w,           \* the request's http.ResponseWriter
  callStack,   \* the user functions run for the request, in order
  called,      \* the builder calls made on the Context
  ncalls,      \* how many builder calls were made on the Context
  accept,      \* the Accept header, once GetEncoder has read it
  asked,       \* the media types handed to the engine's GetEncoder
  encoded,     \* the media types of the encoders whose Encode ran
  ranked,      \* what acceptableMediaTypes returned, called on its own
  got,         \* what GetEncoder returned: encoder, media type and error
  lastCall,    \* the last call made on a Context on its own
  before,      \* the Context and its Writer before that call
  bound        \* what the last Bind did: its error and the Decode calls made

vars == <<routes, registered, preHooks, postHooks, pc, idx, req, handler, ctx, w,
          callStack, called, ncalls, accept, asked, encoded,
          ranked, got, lastCall, before, bound>>

config == <<routes, registered, preHooks, postHooks>>
request == <<req, handler, ctx, w, callStack, called, ncalls, accept, asked, encoded>>

\* the results of the Context methods that are called on their own, outside
\* of ServeHTTP
direct == <<ranked, got, lastCall, before, bound>>

NoCall == Call("", "", StrVal(""))

\* no GetEncoder result, no Bind result
NoEncoder == [encoder |-> Nil, mt |-> "", err |-> Nil]
NoBind == [err |-> Nil, decodes |-> 0]

\* the builder call op made on Context c
Apply(c, op) ==
  CASE op.name = "WithModel" -> WithModel(c, op.val)
    [] op.name = "WithStatus" -> WithStatus(c, op.val.num)
    [] op.name = "WithHeader" -> WithHeader(c, op.key, op.val.str)
    [] op.name = "WithContentType" -> WithContentType(c, op.val.str)
    [] op.name = "RespondWith" -> RespondWith(c, op.val)
    [] OTHER -> c

\* user code makes builder call op (or none, for NoCall) on the Context
UserCall(op) ==
  /\ op = NoCall \/ ncalls < MaxCalls
  /\ LET c == Apply(Context(ctx, w), op)
     IN /\ ctx' = Fields(c)
        /\ w' = c.Writer
  /\ called' = IF op = NoCall THEN called ELSE called \cup {op}
  /\ ncalls' = IF op = NoCall THEN ncalls ELSE ncalls + 1

Init ==
  /\ routes = NoRoutes
  /\ registered = {}
  /\ preHooks = <<>>
  /\ postHooks = <<>>
  /\ pc = "config"
  /\ idx = 1
  /\ req = [method |-> "", path |-> ""]
  /\ handler = ""
  /\ ctx = NewContext
  /\ w = NewWriter
  /\ callStack = <<>>
  /\ called = {}
  /\ ncalls = 0
  /\ accept = Nil
  /\ asked = <<>>
  /\ encoded = <<>>
  /\ ranked = <<>>
  /\ got = NoEncoder
  /\ lastCall = NoCall
  /\ before = Context(NewContext, NewWriter)
  /\ bound = NoBind

(* ------------------------- registration actions ------------------------ *)

\* Router.Get, Router.Del, ...: register a handler for the pattern and method
Handle(method, pattern) ==
  /\ pc = "config"
  /\ routes' = AddHandlerFunc(routes, pattern, method, HandlerName(method, pattern))
  /\ registered' = registered \cup {<<method, pattern>>}
  /\ UNCHANGED <<preHooks, postHooks, pc, idx>>
  /\ UNCHANGED request
  /\ UNCHANGED direct

RegisterPreHook ==
  /\ pc = "config"
  /\ Len(preHooks) < MaxHooks
  /\ preHooks' = AddPreHook(preHooks, "prehook" \o ToString(Len(preHooks) + 1))
  /\ UNCHANGED <<routes, registered, postHooks, pc, idx>>
  /\ UNCHANGED request
  /\ UNCHANGED direct

RegisterPostHook ==
  /\ pc = "config"
  /\ Len(postHooks) < MaxHooks
  /\ postHooks' = AddPostHook(postHooks, "posthook" \o ToString(Len(postHooks) + 1))
  /\ UNCHANGED <<routes, registered, preHooks, pc, idx>>
  /\ UNCHANGED request
  /\ UNCHANGED direct

(* ------------------------------ ServeHTTP ------------------------------ *)

\* A request arrives: resolve the path; 404 and 405 end the request, else a
\* fresh Context is built and the pre-hooks are next.
ServeHTTP(method, path) ==
  /\ pc \in {"config", "idle"}
  /\ req' = [method |-> method, path |-> path]
  /\ ctx' = NewContext
  /\ callStack' = <<>>
  /\ called' = {}
  /\ ncalls' = 0
  /\ accept' = Nil
  /\ asked' = <<>>
  /\ encoded' = <<>>
  /\ idx' = 1
  /\ LET r == HandlerFuncs(routes, path)
     IN IF ~r.ok
        THEN /\ w' = sendError(NewWriter, "404 Not Found", 404)
             /\ handler' = ""
             /\ pc' = "done"
        ELSE IF method \notin DOMAIN r.handlers
        THEN /\ w' = sendError(NewWriter, "405 Method Not Allowed", 405)
             /\ handler' = ""
             /\ pc' = "done"
        ELSE /\ w' = NewWriter
             /\ handler' = r.handlers[method]
             /\ pc' = "pre"
  /\ UNCHANGED config
  /\ UNCHANGED direct

\* the next pre-hook runs; it may make a builder call on the Context.  Hooks
\* return nil, as all hooks of the tests do: the specification leaves open
\* what a failing hook causes.
PreHook(op) ==
  /\ pc = "pre"
  /\ idx <= Len(preHooks)
  /\ callStack' = Append(callStack, preHooks[idx])
  /\ UserCall(op)
  /\ idx' = idx + 1
  /\ UNCHANGED <<pc, req, handler, accept, asked, encoded>>
  /\ UNCHANGED config
  /\ UNCHANGED direct

\* all pre-hooks ran: the handler is called
HandlerEnter ==
  /\ pc = "pre"
  /\ idx > Len(preHooks)
  /\ callStack' = Append(callStack, handler)
  /\ pc' = "handler"
  /\ UNCHANGED <<idx, req, handler, ctx, w, called, ncalls, accept, asked, encoded>>
  /\ UNCHANGED config
  /\ UNCHANGED direct

\* the handler makes a builder call on the Context
HandlerCall(op) ==
  /\ pc = "handler"
  /\ op # NoCall
  /\ UserCall(op)
  /\ UNCHANGED <<pc, idx, req, handler, callStack, accept, asked, encoded>>
  /\ UNCHANGED config
  /\ UNCHANGED direct

\* the handler returns: the post-hooks are next
HandlerReturn ==
  /\ pc = "handler"
  /\ pc' = "post"
  /\ idx' = 1
  /\ UNCHANGED <<req, handler, ctx, w, callStack, called, ncalls, accept, asked, encoded>>
  /\ UNCHANGED config
  /\ UNCHANGED direct

\* the next post-hook runs; it may make a builder call on the Context
PostHook(op) ==
  /\ pc = "post"
  /\ idx <= Len(postHooks)
  /\ callStack' = Append(callStack, postHooks[idx])
  /\ UserCall(op)
  /\ idx' = idx + 1
  /\ UNCHANGED <<pc, req, handler, accept, asked, encoded>>
  /\ UNCHANGED config
  /\ UNCHANGED direct

\* whether finalisation negotiates an encoder, which reads the Accept header
Negotiates(c) == c.responseReady /\ c.payload = Nil /\ c.model # Nil

\* all post-hooks ran: the response is written.  The Accept header of the
\* request enters where acceptableMediaTypes reads it; a request that is
\* answered without negotiation leaves it unread.
Finalize(hdr) ==
  /\ pc = "post"
  /\ idx > Len(postHooks)
  /\ IF Negotiates(ctx) THEN accept' = Some(hdr) ELSE /\ hdr = <<"">>
                                                      /\ accept' = Nil
  /\ LET f == FinalizeResponse(ctx, w, hdr)
     IN /\ w' = f.w
        /\ asked' = f.asked
        /\ encoded' = f.encoded
  /\ pc' = "done"
  /\ UNCHANGED <<idx, req, handler, ctx, callStack, called, ncalls>>
  /\ UNCHANGED config
  /\ UNCHANGED direct

\* ServeHTTP returns: the Context and the writer of the request are dropped
Return ==
  /\ pc = "done"
  /\ pc' = "idle"
  /\ idx' = 1
  /\ req' = [method |-> "", path |-> ""]
  /\ handler' = ""
  /\ ctx' = NewContext
  /\ w' = NewWriter
  /\ callStack' = <<>>
  /\ called' = {}
  /\ ncalls' = 0
  /\ accept' = Nil
  /\ asked' = <<>>
  /\ encoded' = <<>>
  /\ UNCHANGED config
  /\ UNCHANGED direct

Next ==
  \/ \E r \in Registrations : Handle(r[1], r[2])
  \/ RegisterPreHook
  \/ RegisterPostHook
  \/ \E m \in Methods, p \in Paths : ServeHTTP(m, p)
  \/ \E op \in Calls \cup {NoCall} : PreHook(op)
  \/ HandlerEnter
  \/ \E op \in Calls : HandlerCall(op)
  \/ HandlerReturn
  \/ \E op \in Calls \cup {NoCall} : PostHook(op)
  \/ \E hdr \in AcceptHeaders : Finalize(hdr)
  \/ Return

Spec == Init /\ [][Next]_vars

(* --------------- ranking and negotiation on their own ------------------ *)

\* acceptableMediaTypes (GetEncoder's first statement) on a request with
\* Accept header hdr: one of the orders sort.Sort can leave mt in
Rank(hdr) ==
  /\ pc = "config"
  /\ accept' = Some(hdr)
  /\ \E sorted \in SortOutcomes(ParseFields(hdr)) :
       ranked' = MediaTypeStrings(sorted)
  /\ pc' = "ranked"
  /\ UNCHANGED <<idx, req, handler, ctx, w, callStack, called, ncalls, asked, encoded>>
  /\ UNCHANGED <<got, lastCall, before, bound>>
  /\ UNCHANGED config

\* the loop of GetEncoder over the ranked media types
Negotiate ==
  /\ pc = "ranked"
  /\ LET r == GetEncoderLoop(ranked, 1, "", Nil, <<>>)
     IN /\ got' = [encoder |-> r.encoder, mt |-> r.mt, err |-> r.err]
        /\ asked' = r.asked
  /\ pc' = "negotiated"
  /\ UNCHANGED <<idx, req, handler, ctx, w, callStack, called, ncalls, accept, encoded>>
  /\ UNCHANGED <<ranked, lastCall, before, bound>>
  /\ UNCHANGED config

RankNext ==
  \/ \E hdr \in RankHeaders : Rank(hdr)
  \/ Negotiate

RankSpec == Init /\ [][RankNext]_vars

(* ------------------------ a Context on its own ------------------------- *)

\* user code makes builder call op on a Context
Direct(op) ==
  /\ pc = "config"
  /\ ncalls < MaxDirect
  /\ before' = Context(ctx, w)
  /\ lastCall' = op
  /\ LET c == Apply(Context(ctx, w), op)
     IN /\ ctx' = Fields(c)
        /\ w' = c.Writer
  /\ called' = called \cup {op}
  /\ ncalls' = ncalls + 1
  /\ UNCHANGED <<pc, idx, req, handler, callStack, accept, asked, encoded>>
  /\ UNCHANGED <<ranked, got, bound>>
  /\ UNCHANGED config

\* user code calls Bind, once, on the Context of a request with Content-Type
\* ct and the body
BindCall(ct, body) ==
  /\ pc = "config"
  /\ ncalls < MaxDirect
  /\ \A op \in called : op.name # "Bind"
  /\ before' = Context(ctx, w)
  /\ lastCall' = Call("Bind", ct, StrVal(body))
  /\ LET r == Bind(Context(ctx, w), ct, body)
     IN /\ ctx' = Fields(r.c)
        /\ w' = r.c.Writer
        /\ bound' = [err |-> r.err, decodes |-> r.decodes]
  /\ called' = called \cup {Call("Bind", ct, StrVal(body))}
  /\ ncalls' = ncalls + 1
  /\ UNCHANGED <<pc, idx, req, handler, callStack, accept, asked, encoded>>
  /\ UNCHANGED <<ranked, got>>
  /\ UNCHANGED config

ContextNext ==
  \/ \E op \in DirectCalls : Direct(op)
  \/ \E ct \in ContentTypes, body \in Bodies : BindCall(ct, body)

ContextSpec == Init /\ [][ContextNext]_vars

(* ============================== properties ============================= *)

\* the patterns a handler was registered for
RegisteredPatterns == { r[2] : r \in registered }

\* the methods a handler was registered for on the pattern
RegisteredMethods(pattern) == { r[1] : r \in { x \in registered : x[2] = pattern } }

\* the request was routed to a handler
Routed == handler # ""

\* s is the beginning of t
IsPrefix(s, t) == Len(s) <= Len(t) /\ SubSeq(t, 1, Len(s)) = s

\* C1: a request whose path matches no registered pattern is answered with
\* status 404, for every request method and whatever is registered for other
\* paths.
C1_UnmatchedPathIs404 ==
  (pc = "done" /\ req.path \notin RegisteredPatterns) => w.code = 404

\* a DELETE for an unregistered path was answered while handlers were
\* registered for other paths
C1_Witness ==
  /\ pc = "done"
  /\ req.path \notin RegisteredPatterns
  /\ req.method = "DELETE"
  /\ Cardinality(registered) >= 2
  /\ w.code = 404

\* C2: a request whose path matches a registered pattern, with a method that
\* was never registered for that pattern, is answered with status 405,
\* whichever methods are registered there.
C2_UnregisteredMethodIs405 ==
  (/\ pc = "done"
   /\ req.path \in RegisteredPatterns
   /\ req.method \notin RegisteredMethods(req.path)) => w.code = 405

\* a POST was answered for a path that has a GET and a DELETE handler, while
\* another path has a POST handler
C2_Witness ==
  /\ pc = "done"
  /\ req.method = "POST"
  /\ RegisteredMethods(req.path) = {"GET", "DELETE"}
  /\ <<"POST", "/other">> \in registered
  /\ w.code = 405

\* the names of hooks 1..n in the order of their registration
HookNames(prefix, n) == [i \in 1..n |-> prefix \o ToString(i)]

\* the execution sequence of a routed request: the pre-hooks in registration
\* order, the handler, the post-hooks in registration order
ExpectedCallStack ==
  HookNames("prehook", Len(preHooks)) \o <<handler>>
    \o HookNames("posthook", Len(postHooks))

\* C3: for a routed request the user functions run in the sequence
\* p1,..,pn,H,q1,..,qm of the registered pre-hooks, the handler registered for
\* the request's method and path, and the registered post-hooks: at every
\* point what has run is a beginning of that sequence, and when the response
\* is written all of it has run, each function once.
C3_HooksAroundHandlerInOrder ==
  Routed =>
    /\ handler = HandlerName(req.method, req.path)
    /\ IsPrefix(callStack, ExpectedCallStack)
    /\ pc = "done" => callStack = ExpectedCallStack

\* a request with two pre-hooks and two post-hooks was answered
C3_Witness ==
  /\ pc = "done"
  /\ Routed
  /\ Len(preHooks) = 2
  /\ Len(postHooks) = 2
  /\ Len(callStack) = 5

(* ----------------------- negotiation, as claimed ----------------------- *)

\* the ranked candidates of the header, the wildcard taken for the default
Candidates(hdr) ==
  LET mts == acceptableMediaTypes(hdr)
  IN [i \in 1..Len(mts) |->
        IF mts[i] = "*/*" THEN DefaultMediaType ELSE mts[i]]

\* the positions in candidate list c the engine has an encoder for
Encodable(c) == { i \in 1..Len(c) : c[i] \in RegisteredEncoders }

\* the least of a set of positions
First(S) == CHOOSE i \in S : \A j \in S : i <= j

\* The Accept header is an input of the request that only negotiation reads:
\* a request whose header was not read may carry any header.
RequestMayCarry(hdr) == accept = Nil \/ accept = Some(hdr)

StatusOrDefault(status) == IF status = 0 THEN 200 ELSE status

\* the 406 body naming media type mt
Unable(mt) == "Unable to encode to requested acceptable formats: \"" \o mt \o "\""

\* C4 as claimed: for a routed request whose handler set a model and whose
\* ranked candidates all have no encoder, the response is the 406 naming the
\* last candidate.
C4_AsClaimed ==
  \A hdr \in AcceptHeaders :
    (/\ pc = "done"
     /\ Routed
     /\ ctx.model # Nil
     /\ RequestMayCarry(hdr)
     /\ Encodable(Candidates(hdr)) = {})
    => /\ w.code = 406
       /\ w.body = Unable(Candidates(hdr)[Len(Candidates(hdr))])

\* the response of a routed request is negotiated: a model and no payload
\* was set
Negotiated == pc = "done" /\ Routed /\ ctx.model # Nil /\ ctx.payload = Nil

\* C4: when a model and no payload was set and no ranked candidate of the
\* request's Accept header has an encoder, every candidate was tried in ranked
\* order, the response status is 406 and the body names the last candidate
\* tried.
C4_NoEncoderIs406 ==
  Negotiated =>
    /\ accept # Nil
    /\ LET c == Candidates(accept[1])
       IN Encodable(c) = {} =>
            /\ asked = c
            /\ encoded = <<>>
            /\ w.code = 406
            /\ w.body = Unable(c[Len(c)])
            /\ w.writes = 1

\* two candidates were tried and the 406 names the second
C4_Witness ==
  /\ pc = "done"
  /\ ctx.model # Nil
  /\ w.code = 406
  /\ asked = <<"test/mango", "/">>
  /\ w.body = Unable("/")

\* C5: when negotiation finds an encoder and its Encode of the model fails,
\* the response status is 500, the body is the fixed message (not the error
\* of the encoder), and no candidate after the one found was tried.
C5_EncodeFailureIs500 ==
  (pc = "done" /\ accept # Nil) =>
    LET c == Candidates(accept[1])
        enc == Encodable(c)
        first == First(enc)
        e == Encode(c[first], ctx.model[1])
    IN (enc # {} /\ e.err # Nil) =>
         /\ w.code = 500
         /\ w.body = "Sorry, something went wrong."
         /\ w.body # e.err[1]
         /\ asked = SubSeq(c, 1, first)
         /\ encoded = <<c[first]>>
         /\ w.writes = 1

\* the encoder of the higher ranked of two candidates failed on a struct,
\* and the other candidate was not tried
C5_Witness ==
  /\ pc = "done"
  /\ accept # Nil
  /\ Len(accept[1]) = 2
  /\ asked = <<"test/test">>
  /\ encoded = <<"test/test">>
  /\ w.code = 500

\* C6 as claimed: whenever the handler set a model and a ranked candidate has
\* an encoder, the model is encoded with the first such candidate's encoder,
\* the Content-Type is that media type and the status is the context's.
C6_AsClaimed ==
  \A hdr \in AcceptHeaders :
    (/\ pc = "done"
     /\ Routed
     /\ ctx.model # Nil
     /\ RequestMayCarry(hdr)
     /\ Encodable(Candidates(hdr)) # {})
    => LET c == Candidates(hdr)
           first == First(Encodable(c))
       IN /\ encoded = <<c[first]>>
          /\ HeaderGet(w, "Content-Type") = c[first]
          /\ w.code = StatusOrDefault(ctx.status)

\* C6: when a model and no payload was set and a ranked candidate has an
\* encoder, the candidates are tried in ranked order up to the first that has
\* one, the model is encoded with that encoder and no other, and, when that
\* encoding succeeds, the body is its output, the Content-Type is that media
\* type and the status is the one set on the context, 200 when none was set.
C6_FirstEncodableCandidateEncodes ==
  Negotiated =>
    /\ accept # Nil
    /\ LET c == Candidates(accept[1])
           enc == Encodable(c)
           first == First(enc)
           e == Encode(c[first], ctx.model[1])
       IN enc # {} =>
            /\ asked = SubSeq(c, 1, first)
            /\ encoded = <<c[first]>>
            /\ e.err = Nil =>
                 /\ w.body = e.out
                 /\ HeaderGet(w, "Content-Type") = c[first]
                 /\ w.code = StatusOrDefault(ctx.status)
                 /\ w.writes = 1

\* the second ranked candidate was the first with an encoder and encoded the
\* model, with the status the handler set
C6_Witness ==
  /\ pc = "done"
  /\ asked = <<"test/mango", "test/test">>
  /\ encoded = <<"test/test">>
  /\ HeaderGet(w, "Content-Type") = "test/test"
  /\ w.body = "text"
  /\ w.code = 404

(* ------------------------ responses without a model -------------------- *)

\* C7: a request during which the only builder call is RespondWith(s) for a
\* string s is answered with status 200 and body s.
C7_RespondWithStringIsBody ==
  \A op \in Calls :
    (/\ op.name = "RespondWith"
     /\ op.val.kind = "string"
     /\ pc = "done"
     /\ Routed
     /\ called = {op})
    => /\ w.code = 200
       /\ w.body = op.val.str

\* a request whose handler made the one call RespondWith("hello") was answered
C7_Witness ==
  /\ pc = "done"
  /\ called = {Call("RespondWith", "", StrVal("hello"))}
  /\ w.body = "hello"

\* C8: a request during which the only builder call is WithStatus(s) is
\* answered with status s and no body.
C8_WithStatusIsStatus ==
  \A op \in Calls :
    (/\ op.name = "WithStatus"
     /\ pc = "done"
     /\ Routed
     /\ called = {op})
    => /\ w.code = op.val.num
       /\ w.body = ""

\* a request whose handler made the one call WithStatus(404) was answered
C8_Witness ==
  /\ pc = "done"
  /\ called = {Call("WithStatus", "", IntVal(404))}
  /\ w.code = 404

\* C9: a routed request during which no call set payload, model or status
\* leaves responseReady false and is answered with status 200 and no body.
C9_NothingSetIs200Empty ==
  (/\ pc = "done"
   /\ Routed
   /\ \A op \in called : op.name \in {"WithHeader", "WithContentType"})
  => /\ ~ctx.responseReady
     /\ w.code = 200
     /\ w.body = ""

\* a request whose hooks and handler only set headers was answered
C9_Witness ==
  /\ pc = "done"
  /\ Routed
  /\ Cardinality(called) = 2
  /\ ~ctx.responseReady
  /\ w.code = 200

\* the Content-Type user code set on the response, "" when it set none
ContentTypeSet ==
  IF \E op \in called : op.name = "WithContentType"
  THEN (CHOOSE op \in called : op.name = "WithContentType").val.str
  ELSE ""

\* C10: when a call set the payload, it is still set when the response is
\* written and the response is that payload with the status of the context
\* (200 when none was set) and the Content-Type user code set; no encoder is
\* asked for and none runs, also when a model was set before or after.
C10_PayloadWrittenVerbatim ==
  \A op \in Calls :
    (/\ op.name = "RespondWith"
     /\ op.val.kind = "string"
     /\ op \in called
     /\ pc = "done"
     /\ Routed)
    => /\ ctx.payload = Some(op.val.str)
       /\ w.body = op.val.str
       /\ w.code = StatusOrDefault(ctx.status)
       /\ w.code \notin {406, 500}
       /\ HeaderGet(w, "Content-Type") = ContentTypeSet
       /\ accept = Nil
       /\ asked = <<>>
       /\ encoded = <<>>
       /\ w.writes = 1

\* a payload and a model that no encoder encodes were both set, and the
\* payload was written
C10_Witness ==
  /\ pc = "done"
  /\ ctx.payload # Nil
  /\ ctx.model # Nil
  /\ ctx.model[1].kind = "struct"
  /\ w.body = "hello"
  /\ w.code = 200

(* ------------------------- media-type ranking -------------------------- *)

\* the positions of the fields of hdr that parse
Parsable(hdr) == { i \in 1..Len(hdr) : ~newMediaType(hdr[i]).err }

\* the quality of field i of hdr, in tenths
Quality(hdr, i) == newMediaType(hdr[i]).m.q

\* the place of parsable field i in the specified ranking: behind the fields
\* of higher quality and behind those of equal quality that precede it in
\* hdr
Place(hdr, i) ==
  1 + Cardinality({ j \in Parsable(hdr) :
                      \/ Quality(hdr, j) > Quality(hdr, i)
                      \/ Quality(hdr, j) = Quality(hdr, i) /\ j < i })

\* the specified ranking of hdr: its parsable fields by descending quality,
\* those of equal quality in header order
RankingSpecified(hdr) ==
  [k \in 1..Cardinality(Parsable(hdr)) |->
     MediaTypeString(
       newMediaType(hdr[CHOOSE i \in Parsable(hdr) : Place(hdr, i) = k]).m)]

\* acceptableMediaTypes has returned
Ranked == pc \in {"ranked", "negotiated"}

\* C12: the ranking of a header whose fields all parse is its entries by
\* descending quality (a missing quality counting as 1.0), entries of equal
\* quality in header order.
C12_AsClaimed ==
  (Ranked /\ Parsable(accept[1]) = 1..Len(accept[1]))
    => ranked = RankingSpecified(accept[1])

\* a header of seven fields was ranked with its two fields of quality 0.5 in
\* the reverse of their header order
C12_Witness ==
  /\ Ranked
  /\ Len(accept[1]) = 7
  /\ accept[1][1] = "test/test;q=0.5"
  /\ accept[1][4] = "text/html;q=0.5"
  /\ ranked[6] = "text/html"
  /\ ranked[7] = "test/test"

\* C13: the ranking has one entry for each field that parses and none for a
\* field that does not, and the media type of a field that did not parse is
\* never asked of the encoder engine.
C13_AsClaimed ==
  Ranked =>
    /\ Len(ranked) = Cardinality(Parsable(accept[1]))
    /\ \A i \in 1..Len(ranked) : ranked[i] # MediaTypeString(ZeroMediaType)
    /\ \A i \in 1..Len(asked) : asked[i] # MediaTypeString(ZeroMediaType)

\* a header of one parsable and one malformed field was ranked as two entries
\* and the engine was asked for the empty media type of the second
C13_Witness ==
  /\ pc = "negotiated"
  /\ accept = Some(<<"bogus", "test/mango">>)
  /\ ranked = <<"test/mango", "/">>
  /\ asked = <<"test/mango", "/">>
  /\ got.err # Nil
  /\ got.mt = "/"

(* --------------------------- error responses --------------------------- *)

\* the request was answered with an error of the core: no route, no handler
\* for the method, no encoder for any candidate, or a failed Encode
RouteError == pc = "done" /\ ~Routed
NoEncoderError == Negotiated /\ encoded = <<>>
EncodeError ==
  Negotiated /\ encoded # <<>> /\ Encode(encoded[1], ctx.model[1]).err # Nil

\* the status codes and messages sendError is called with
RouteErrors ==
  {<<404, "404 Not Found">>, <<405, "405 Method Not Allowed">>}

\* C11: every error response of the core (404, 405, 406, 500) has the status
\* code and, as its whole body, the message sendError was called with, and
\* its Content-Type is text/plain; charset=utf-8, whatever Content-Type user
\* code had set before.
C11_ErrorsArePlainText ==
  /\ RouteError => <<w.code, w.body>> \in RouteErrors
  /\ NoEncoderError => /\ w.code = 406
                       /\ w.body = Unable(asked[Len(asked)])
  /\ EncodeError => /\ w.code = 500
                    /\ w.body = "Sorry, something went wrong."
  /\ (RouteError \/ NoEncoderError \/ EncodeError)
       => /\ HeaderGet(w, "Content-Type") = "text/plain; charset=utf-8"
          /\ w.header["Content-Type"] = <<"text/plain; charset=utf-8">>
          /\ w.writes = 1

\* a 500 was sent after user code had set another Content-Type
C11_Witness ==
  /\ EncodeError
  /\ Call("WithContentType", "", StrVal("text/x")) \in called
  /\ w.code = 500
  /\ HeaderGet(w, "Content-Type") = "text/plain; charset=utf-8"

\* C14: a model response to a request with an empty or absent Accept header
\* is negotiated over the single candidate */*: the engine is asked for its
\* default media type only, the model is encoded with that encoder, and the
\* response has its output as body and the default media type as
\* Content-Type.
C14_EmptyAcceptIsDefault ==
  (Negotiated /\ accept = Some(<<"">>)) =>
    /\ acceptableMediaTypes(accept[1]) = <<"*/*">>
    /\ asked = <<DefaultMediaType>>
    /\ encoded = <<DefaultMediaType>>
    /\ LET e == Encode(DefaultMediaType, ctx.model[1])
       IN e.err = Nil =>
            /\ w.body = e.out
            /\ HeaderGet(w, "Content-Type") = DefaultMediaType
            /\ w.code = StatusOrDefault(ctx.status)

\* a struct was set as model by a request without Accept header and was
\* encoded as JSON
C14_Witness ==
  /\ Negotiated
  /\ accept = Some(<<"">>)
  /\ ctx.model[1].kind = "struct"
  /\ w.body = "{}"
  /\ HeaderGet(w, "Content-Type") = "application/json"
  /\ w.code = 200

\* a request is under way whose path resolves to no handler for its method
Unresolved ==
  /\ pc \notin {"config", "idle"}
  /\ \/ req.path \notin RegisteredPatterns
     \/ req.method \notin RegisteredMethods(req.path)

\* C19: a request whose path does not resolve, or resolves without a handler
\* for its method, is answered at once: no pre-hook, handler or post-hook
\* runs, no builder call is made, no encoder is asked for, and the one
\* response written is the 404, respectively the 405.
C19_RouteErrorsRunNoUserCode ==
  Unresolved =>
    /\ pc = "done"
    /\ callStack = <<>>
    /\ called = {}
    /\ ncalls = 0
    /\ asked = <<>>
    /\ encoded = <<>>
    /\ w.writes = 1
    /\ w.code = IF req.path \notin RegisteredPatterns THEN 404 ELSE 405

\* a 405 was sent, and none of the two pre-hooks and two post-hooks ran
C19_Witness ==
  /\ Unresolved
  /\ Len(preHooks) = 2
  /\ Len(postHooks) = 2
  /\ callStack = <<>>
  /\ w.code = 405
  /\ w.writes = 1

(* ----------------------- GetEncoder on its own ------------------------- *)

\* C15: GetEncoder never asks the engine for */*: for each ranked candidate
\* it tried, in ranked order, it asked for the candidate itself, and for the
\* default media type when the candidate is */*; the media type it returns
\* is the one it asked for last, so the default media type when its last
\* candidate was */*.
C15_WildcardIsTranslated ==
  pc = "negotiated" =>
    /\ Len(asked) <= Len(ranked)
    /\ \A i \in 1..Len(asked) :
         /\ asked[i] # "*/*"
         /\ asked[i] = IF ranked[i] = "*/*" THEN DefaultMediaType ELSE ranked[i]
    /\ got.mt = asked[Len(asked)]
    /\ ranked[Len(asked)] = "*/*" => got.mt = DefaultMediaType

\* the wildcard was the second candidate, after one without encoder, and the
\* default media type was asked for and returned
C15_Witness ==
  /\ pc = "negotiated"
  /\ ranked = <<"test/mango", "*/*">>
  /\ asked = <<"test/mango", DefaultMediaType>>
  /\ got.mt = DefaultMediaType
  /\ got.err = Nil

\* C20: GetEncoder asks the engine at least once, for every header; it never
\* returns a nil encoder with a nil error; and its error is nil exactly when
\* its encoder is not nil and is the one the engine produces for the media
\* type it returns.
C20_EncoderOrError ==
  pc = "negotiated" =>
    /\ Len(asked) >= 1
    /\ ~(got.encoder = Nil /\ got.err = Nil)
    /\ got.err = Nil <=>
         (got.encoder # Nil /\ got.encoder = EngineGetEncoder(got.mt).encoder)

\* a header of malformed entries only: the engine was asked, and an error
\* and no encoder was returned
C20_Witness ==
  /\ pc = "negotiated"
  /\ accept = Some(<<"bogus", "bogus">>)
  /\ Len(asked) = 2
  /\ got.encoder = Nil
  /\ got.err # Nil

(* ----------------------- the builder on its own ------------------------ *)

\* the calls that mark a response as produced
MarksReady(op) == op.name \in {"WithModel", "WithStatus", "RespondWith"}

\* C16: after any sequence of calls on a fresh Context, responseReady is
\* true exactly when WithModel, WithStatus or RespondWith was among them;
\* WithHeader and WithContentType leave status, payload, model and
\* responseReady as they were; and no call makes a true responseReady false.
C16_OnlyModelOrStatusFlipsReady ==
  /\ ctx.responseReady <=> \E op \in called : MarksReady(op)
  /\ lastCall.name \in {"WithHeader", "WithContentType"} => ctx = Fields(before)
  /\ before.responseReady => ctx.responseReady

\* WithHeader and WithContentType were called and the response is not ready
C16_Witness ==
  /\ called = { Call("WithHeader", "X-Trace", StrVal("1")),
                Call("WithContentType", "", StrVal("text/x")) }
  /\ ncalls = 3
  /\ ~ctx.responseReady

C18_BindFailsOnLookupOrDecode ==
  lastCall.name = "Bind" =>
    LET ct == lastCall.key
        body == lastCall.val.str
        lookup == EngineGetDecoder(ct)
        cause == IF lookup.err # Nil THEN lookup.err ELSE Decode(ct, body)
    IN /\ bound.err # Nil <=> cause # Nil
       /\ bound.err # Nil => bound.err = Some("unable to bind: " \o cause[1])
       /\ bound.decodes = IF lookup.err # Nil THEN 0 ELSE 1
       /\ ctx = Fields(before)
       /\ w = before.Writer

\* Bind failed in Decode on a Context that was ready with status 404, which
\* it left so
C18_Witness ==
  /\ lastCall = Call("Bind", "application/json", StrVal("garbage"))
  /\ bound.err # Nil
  /\ bound.decodes = 1
  /\ ctx.status = 404
  /\ ctx.responseReady
  /\ w.writes = 0

====
